---- MODULE Spec2Model ----
(***************************************************************************)
(* Multi-click tracking of iced_native (input/mouse/click.rs).             *)
(*                                                                         *)
(* Click::new(position, previous) reads the clock and classifies a press   *)
(* as Single, Double or Triple from the one click the caller retained.     *)
(* Instants are natural numbers of nanoseconds, positions are pairs of     *)
(* coordinates, an Option is a set with at most one element.               *)
(*                                                                         *)
(* Spec    the callers: every input source owns one previous-click slot,   *)
(*         the clock is monotonic, each call reads it once.                *)
(* SpecFn  Click::new as a function: the previous click and the clock      *)
(*         reading are drawn freely, a previous click later than the       *)
(*         clock reading included.                                         *)
(***************************************************************************)
EXTENDS Integers, FiniteSets, Sequences, TLC

VARIABLES now, last_click, call, prior, streak, presses, alone

\* The solar system example (examples/solar_system/src/main.rs): the fields
\* of State, the canvas event handled last and the position of the most
\* recent CursorMoved event.
VARIABLES stars, cursor_position, space_cache, system_cache, start,
          state_now, event, moved

click_vars == <<now, last_click, call, prior, streak, presses, alone>>

solar_vars == <<stars, cursor_position, space_cache, system_cache, start,
                state_now, event, moved>>

vars == <<click_vars, solar_vars>>

\* ---------------------------------------------------------------- bounds

\* Number of calls to Click::new in one behaviour of Spec.
MaxPresses == 5

\* Number of calls to Click::new in one behaviour of SpecFn.
MaxFnCalls == 2

\* Number of stars added by the user in one behaviour of SpecSolar.
MaxNewStars == 2

\* The latest instant of a Tick in SpecSolar, in milliseconds.
MaxInstant == 30

\* Nanoseconds of a duration that is not a whole number of milliseconds.
HalfMilli == 500000

\* ------------------------------------------------------------- constants

\* Duration::as_millis divides the nanoseconds of a Duration by this.
NanosPerMilli == 1000000

\* The window of is_consecutive, in milliseconds.
ClickWindowMillis == 300

Millis(n) == n * NanosPerMilli


\* ------------------------------------------------------------ input sets

Sources == {1, 2}

Positions == {<<10, 10>>, <<20, 10>>}

\* The time between two successive clock readings of Spec.
Deltas == {0, Millis(200), Millis(300) + HalfMilli}

\* The clock readings and click times of SpecFn.
Times == {0, Millis(150), Millis(300), Millis(300) + HalfMilli,
          Millis(301), Millis(305)}

\* ------------------------------------------------------------------ Kind

Kinds == {"Single", "Double", "Triple"}

\* next without the cycle: Triple stays Triple.
KindNextSaturating(kind) ==
    CASE kind = "Single" -> "Double"
      [] kind = "Double" -> "Triple"
      [] kind = "Triple" -> "Triple"

KindNext(kind) ==
    CASE kind = "Single" -> "Double"
      [] kind = "Double" -> "Triple"
      [] kind = "Triple" -> "Double"

\* ----------------------------------------------------------------- Click

Click(kind, position, time) ==
    [kind |-> kind, position |-> position, time |-> time]

None == {}

Some(c) == {c}

\* Instant::duration_since(earlier): the elapsed nanoseconds.  When earlier
\* is later than self the standard library of the build decides: it panics
\* (the libraries this crate was written for) or returns zero (later ones).
DurationSince(self, earlier) ==
    IF earlier <= self
    THEN {[panicked |-> FALSE, value |-> self - earlier]}
    ELSE {[panicked |-> TRUE, value |-> 0],
          [panicked |-> FALSE, value |-> 0]}

\* as_millis rounding to the nearest millisecond instead of truncating.
AsMillisRounded(nanos) == (nanos + (NanosPerMilli \div 2)) \div NanosPerMilli

\* Duration::as_millis: whole milliseconds, the fraction dropped.
AsMillis(nanos) == nanos \div NanosPerMilli

\* Point == Point: both coordinates equal.
PointEq(a, b) == a[1] = b[1] /\ a[2] = b[2]

\* is_consecutive without the position test.
IsConsecutiveAnyPosition(self, new_position, time) ==
    {[panicked |-> d.panicked,
      value |-> (~d.panicked /\ AsMillis(d.value) <= ClickWindowMillis)] :
        d \in DurationSince(time, self.time)}

\* is_consecutive with an exclusive threshold.
IsConsecutiveExclusive(self, new_position, time) ==
    IF PointEq(self.position, new_position)
    THEN {[panicked |-> d.panicked,
           value |-> (~d.panicked /\ AsMillis(d.value) < ClickWindowMillis)] :
             d \in DurationSince(time, self.time)}
    ELSE {[panicked |-> FALSE, value |-> FALSE]}

\* is_consecutive with the window measured from the first press of the run
\* the previous click belongs to.
IsConsecutiveSinceStart(self, new_position, time) ==
    IF PointEq(self.position, new_position)
    THEN {[panicked |-> d.panicked,
           value |-> (/\ ~d.panicked
                      /\ AsMillis(d.value) <= ClickWindowMillis
                      /\ \A s \in Sources :
                           (last_click[s] = {self} /\ streak[s].len > 0) =>
                               AsMillis(time - streak[s].start) <= ClickWindowMillis)] :
             d \in DurationSince(time, self.time)}
    ELSE {[panicked |-> FALSE, value |-> FALSE]}

\* && evaluates duration_since only when the positions are equal.
IsConsecutive(self, new_position, time) ==
    IF PointEq(self.position, new_position)
    THEN {[panicked |-> d.panicked,
           value |-> (~d.panicked /\ AsMillis(d.value) <= ClickWindowMillis)] :
             d \in DurationSince(time, self.time)}
    ELSE {[panicked |-> FALSE, value |-> FALSE]}

\* Click::new classifying a press without previous click as Double.
ClickNewFirstDouble(position, previous, time) ==
    IF previous = None
    THEN {[panicked |-> FALSE, click |-> Some(Click("Double", position, time))]}
    ELSE UNION {
           {IF c.panicked
            THEN [panicked |-> TRUE, click |-> None]
            ELSE [panicked |-> FALSE,
                  click |-> Some(Click(IF c.value THEN KindNext(p.kind)
                                                  ELSE "Single",
                                       position, time))] :
              c \in IsConsecutive(p, position, time)} : p \in previous}

\* Click::new taking the kind of a consecutive press from the number of
\* presses seen so far instead of from the previous click.
ClickNewByCount(position, previous, time) ==
    IF previous = None
    THEN {[panicked |-> FALSE, click |-> Some(Click("Single", position, time))]}
    ELSE UNION {
           {IF c.panicked
            THEN [panicked |-> TRUE, click |-> None]
            ELSE [panicked |-> FALSE,
                  click |-> Some(Click(IF c.value
                                       THEN (IF presses % 2 = 1 THEN "Double"
                                                                ELSE "Triple")
                                       ELSE "Single",
                                       position, time))] :
              c \in IsConsecutive(p, position, time)} : p \in previous}

\* Click::new building the click from the previous one and replacing the
\* kind only: Click { kind, ..previous }.
ClickNewKeepsPrevious(position, previous, time) ==
    IF previous = None
    THEN {[panicked |-> FALSE, click |-> Some(Click("Single", position, time))]}
    ELSE UNION {
           {IF c.panicked
            THEN [panicked |-> TRUE, click |-> None]
            ELSE [panicked |-> FALSE,
                  click |-> Some(Click(IF c.value THEN KindNext(p.kind)
                                                  ELSE "Single",
                                       p.position, p.time))] :
              c \in IsConsecutive(p, position, time)} : p \in previous}

\* Click::new stamping the click with the end of its window instead of the
\* clock reading.
ClickNewStampsDeadline(position, previous, time) ==
    IF previous = None
    THEN {[panicked |-> FALSE,
           click |-> Some(Click("Single", position,
                                time + Millis(ClickWindowMillis)))]}
    ELSE UNION {
           {IF c.panicked
            THEN [panicked |-> TRUE, click |-> None]
            ELSE [panicked |-> FALSE,
                  click |-> Some(Click(IF c.value THEN KindNext(p.kind)
                                                  ELSE "Single",
                                       position,
                                       time + Millis(ClickWindowMillis)))] :
              c \in IsConsecutive(p, position, time)} : p \in previous}

\* The outcomes of Click::new(position, previous) when Instant::now()
\* returns time: the click built, or a panic.
ClickNew(position, previous, time) ==
    IF previous = None
    THEN {[panicked |-> FALSE, click |-> Some(Click("Single", position, time))]}
    ELSE UNION {
           {IF c.panicked
            THEN [panicked |-> TRUE, click |-> None]
            ELSE [panicked |-> FALSE,
                  click |-> Some(Click(IF c.value THEN KindNext(p.kind)
                                                  ELSE "Single",
                                       position, time))] :
              c \in IsConsecutive(p, position, time)} : p \in previous}

\* ----------------------------------------------------------------- state

\* alone[s] is the click source s would hold had its presses been
\* classified alone, in the same order and at the same clock readings.

\* The record of one call to Click::new: its arguments, the clock reading,
\* its outcome, and the place of its click in a run of presses (len, start).
NoCall ==
    [source |-> 0, position |-> <<0, 0>>, previous |-> None, time |-> 0,
     panicked |-> FALSE, click |-> None, len |-> 0, start |-> 0]

NoStreak == [len |-> 0, start |-> 0]

\* A press at position, read at time, continues the run of the click prev:
\* same position and at most 300 ms later, measured on the instants.
Continues(prev, position, time) ==
    /\ prev.position = position
    /\ prev.time <= time
    /\ time - prev.time <= Millis(ClickWindowMillis)

\* The run a press belongs to: a press without previous click starts a run,
\* a press that continues a run is its next press, any other is in no run.
RunOf(s, position, time) ==
    IF last_click[s] = None
    THEN [len |-> 1, start |-> time]
    ELSE IF /\ streak[s].len > 0
            /\ \A p \in last_click[s] : Continues(p, position, time)
         THEN [len |-> streak[s].len + 1, start |-> streak[s].start]
         ELSE NoStreak

\* No solar system State has been built.
NoSolarSystem ==
    /\ stars = <<>>
    /\ cursor_position = <<0, 0>>
    /\ space_cache = {}
    /\ system_cache = {}
    /\ start = 0
    /\ state_now = 0
    /\ event = [type |-> "None", position |-> <<0, 0>>,
                button |-> "None", state |-> "None"]
    /\ moved = {}

Init ==
    /\ now = 0
    /\ last_click = [s \in Sources |-> None]
    /\ call = NoCall
    /\ prior = NoCall
    /\ streak = [s \in Sources |-> NoStreak]
    /\ presses = 0
    /\ alone = last_click
    /\ NoSolarSystem

\* Click::new advancing the kind of the previous click in place.
CallAtWriting(s, position, time) ==
    /\ now' = time
    /\ \E r \in ClickNew(position, last_click[s], time) :
         call' = [source |-> s, position |-> position,
                  previous |-> last_click[s], time |-> time,
                  panicked |-> r.panicked, click |-> r.click,
                  len |-> IF r.panicked THEN 0 ELSE RunOf(s, position, time).len,
                  start |-> IF r.panicked THEN 0 ELSE RunOf(s, position, time).start]
    /\ prior' = call
    /\ presses' = presses + 1
    /\ last_click' = [last_click EXCEPT ![s] =
                        {Click(KindNext(p.kind), p.position, p.time) : p \in @}]
    /\ UNCHANGED <<streak, alone>>
    /\ UNCHANGED solar_vars

\* Click::new reading the previous click from one slot shared by all
\* sources: the slot of the source that pressed last.
CallAtSharedSlot(s, position, time) ==
    LET shared == IF call.source \in Sources /\ last_click[call.source] # None
                  THEN last_click[call.source]
                  ELSE last_click[s]
    IN  /\ now' = time
        /\ \E r \in ClickNew(position, shared, time) :
             call' = [source |-> s, position |-> position,
                      previous |-> shared, time |-> time,
                      panicked |-> r.panicked, click |-> r.click,
                      len |-> IF r.panicked THEN 0 ELSE RunOf(s, position, time).len,
                      start |-> IF r.panicked THEN 0 ELSE RunOf(s, position, time).start]
        /\ prior' = call
        /\ presses' = presses + 1
        /\ UNCHANGED <<last_click, streak, alone>>
        /\ UNCHANGED solar_vars

\* Source s calls Click::new(position, last_click[s]) and the clock reads
\* time.  The previous click is passed by value: the slot is not written.
CallAt(s, position, time) ==
    /\ now' = time
    /\ \E r \in ClickNew(position, last_click[s], time) :
         call' = [source |-> s, position |-> position,
                  previous |-> last_click[s], time |-> time,
                  panicked |-> r.panicked, click |-> r.click,
                  len |-> IF r.panicked THEN 0 ELSE RunOf(s, position, time).len,
                  start |-> IF r.panicked THEN 0 ELSE RunOf(s, position, time).start]
    /\ prior' = call
    /\ presses' = presses + 1
    /\ UNCHANGED <<last_click, streak, alone>>
    /\ UNCHANGED solar_vars

\* A call under the monotonic clock, delta after the last reading.
Call(s, position, delta) ==
    /\ presses < MaxPresses
    /\ CallAt(s, position, now + delta)

\* The caller keeps the click just returned as the previous click of s.
Retain(s) ==
    /\ call.source = s
    /\ call.click # None
    /\ last_click[s] # call.click
    /\ last_click' = [last_click EXCEPT ![s] = call.click]
    /\ streak' = [streak EXCEPT ![s] = [len |-> call.len, start |-> call.start]]
    /\ \E r \in ClickNew(call.position, alone[s], call.time) :
         alone' = [alone EXCEPT ![s] = r.click]
    /\ UNCHANGED <<now, call, prior, presses>>
    /\ UNCHANGED solar_vars

Next ==
    \/ \E s \in Sources, p \in Positions, d \in Deltas : Call(s, p, d)
    \/ \E s \in Sources : Retain(s)

Spec == Init /\ [][Next]_vars

\* ---------------------------------------------------- Click::new alone

OptionClicks ==
    {None} \cup {Some(Click(k, p, t)) : k \in Kinds, p \in Positions, t \in Times}

InitFn ==
    /\ now \in Times
    /\ \E s0 \in Sources, c \in OptionClicks :
         last_click = [s \in Sources |-> IF s = s0 THEN c ELSE None]
    /\ call = NoCall
    /\ prior = NoCall
    /\ streak = [s \in Sources |-> NoStreak]
    /\ presses = 0
    /\ alone = last_click
    /\ NoSolarSystem

\* One application of Click::new to a drawn position and clock reading.
Apply(s, position, time) ==
    /\ presses < MaxFnCalls
    /\ CallAt(s, position, time)

NextFn == \E s \in Sources, p \in Positions, t \in Times : Apply(s, p, t)

SpecFn == InitFn /\ [][NextFn]_vars

\* -------------------------------------------------- solar system example

\* window::Settings::default().size
WindowWidth == 1024

WindowHeight == 768

\* generate_stars: (0..100)
StarCount == 100

\* Sizes are in hundredths: rng.gen_range(0.5, 1.0) is 50..99, 2.0 is 200.
MinStarSize == 50

MaxStarSize == 100

NewStarSize == 200

\* time::every(Duration::from_millis(10))
TickMillis == 10

Origin == <<0, 0>>

\* The seeds of rand::thread_rng() and the instants of State::new().
Seeds == {3, 7}

StartInstants == {0, 5}

\* generate_stars(width, height): 100 stars, positions inside the window and
\* sizes in [0.5, 1.0), the sequence the generator seeded with seed yields.
GenerateStars(seed, width, height) ==
    [i \in 1..StarCount |->
        << <<(seed * i * 31) % width, (seed * i * i) % height>>,
           MinStarSize + ((seed + i * 7) % (MaxStarSize - MinStarSize)) >>]

\* canvas::Cache: empty, or the geometry drawn from some input.
CacheEmpty == {}

CacheClear(cache) == CacheEmpty

\* Cache::draw(bounds, input): draws the input when empty, reuses otherwise.
CacheDraw(cache, input) == IF cache = CacheEmpty THEN {input} ELSE cache

Event(type, position, button, state) ==
    [type |-> type, position |-> position, button |-> button, state |-> state]

MouseButtons == {"Left", "Right"}

ButtonStates == {"Pressed", "Released"}

\* The canvas events: mouse::Event.
CanvasEvents ==
    {Event("CursorMoved", p, "None", "None") : p \in Positions}
      \cup {Event("Input", Origin, b, st) : b \in MouseButtons, st \in ButtonStates}
      \cup {Event("WheelScrolled", Origin, "None", "None")}

\* State::new()
InitSolar ==
    /\ now = 0
    /\ last_click = [s \in Sources |-> None]
    /\ call = NoCall
    /\ prior = NoCall
    /\ streak = [s \in Sources |-> NoStreak]
    /\ presses = 0
    /\ alone = last_click
    /\ space_cache = CacheEmpty
    /\ system_cache = CacheEmpty
    /\ cursor_position = Origin
    /\ start \in StartInstants
    /\ state_now = start
    /\ \E seed \in Seeds : stars = GenerateStars(seed, WindowWidth, WindowHeight)
    /\ event = Event("None", Origin, "None", "None")
    /\ moved = {}

\* State::update without clearing the cache.
StateUpdateKeepsCache(instant) ==
    /\ state_now' = instant
    /\ system_cache' = system_cache

\* State::update(now)
StateUpdate(instant) ==
    /\ state_now' = instant
    /\ system_cache' = CacheClear(system_cache)

\* SolarSystem::update(Message::Tick(instant)): the subscription delivers
\* the readings of Instant::now() in order.
Tick(delta) ==
    /\ state_now + delta <= MaxInstant
    /\ StateUpdate(state_now + delta)
    /\ event' = Event("Tick", Origin, "None", "None")
    /\ UNCHANGED <<stars, cursor_position, space_cache, start, moved>>
    /\ UNCHANGED click_vars

\* canvas::State::update adding a star when any button is released.
CanvasUpdateAnyButton(ev) ==
    /\ event' = ev
    /\ CASE ev.type = "CursorMoved" ->
              /\ cursor_position' = ev.position
              /\ moved' = {ev.position}
              /\ UNCHANGED <<stars, space_cache>>
         [] ev.type = "Input" /\ ev.state = "Released" ->
              /\ Len(stars) < StarCount + MaxNewStars
              /\ stars' = Append(stars, <<cursor_position, NewStarSize>>)
              /\ space_cache' = CacheClear(space_cache)
              /\ UNCHANGED <<cursor_position, moved>>
         [] OTHER ->
              UNCHANGED <<stars, space_cache, cursor_position, moved>>
    /\ UNCHANGED <<system_cache, start, state_now>>
    /\ UNCHANGED click_vars

\* <State as canvas::State>::update(event, bounds)
CanvasUpdate(ev) ==
    /\ event' = ev
    /\ CASE ev.type = "CursorMoved" ->
              /\ cursor_position' = ev.position
              /\ moved' = {ev.position}
              /\ UNCHANGED <<stars, space_cache>>
         [] ev.type = "Input" /\ ev.button = "Left" /\ ev.state = "Released" ->
              /\ Len(stars) < StarCount + MaxNewStars
              /\ stars' = Append(stars, <<cursor_position, NewStarSize>>)
              /\ space_cache' = CacheClear(space_cache)
              /\ UNCHANGED <<cursor_position, moved>>
         [] OTHER ->
              UNCHANGED <<stars, space_cache, cursor_position, moved>>
    /\ UNCHANGED <<system_cache, start, state_now>>
    /\ UNCHANGED click_vars

\* <State as canvas::State>::draw(bounds)
Draw ==
    /\ space_cache' = CacheDraw(space_cache, stars)
    /\ system_cache' = CacheDraw(system_cache, [start |-> start, now |-> state_now])
    /\ event' = Event("Draw", Origin, "None", "None")
    /\ UNCHANGED <<stars, cursor_position, start, state_now, moved>>
    /\ UNCHANGED click_vars

NextSolar ==
    \/ \E d \in {0, TickMillis} : Tick(d)
    \/ \E ev \in CanvasEvents : CanvasUpdate(ev)
    \/ Draw

SpecSolar == InitSolar /\ [][NextSolar]_vars

\* ------------------------------------------------------------ properties

\* The click a call returned and the click it was given, when there are.
Returned(c) == c.source # 0 /\ ~c.panicked /\ c.click # None

\* The kind of the n-th press of a run that began without previous click.
ExpectedKind(n) ==
    IF n = 1 THEN "Single" ELSE IF n % 2 = 0 THEN "Double" ELSE "Triple"

\* C1: in a run of presses that began without previous click and in which
\* every press is at the position of the one before it and at most 300 ms
\* after it, the kinds are Single, Double, Triple, Double, Triple, ...
C1_RunKinds ==
    /\ call.len > 0 =>
         /\ Returned(call)
         /\ \A c \in call.click : c.kind = ExpectedKind(call.len)
    /\ \A s \in Sources :
         streak[s].len > 0 =>
           \A c \in last_click[s] : c.kind = ExpectedKind(streak[s].len)

\* The fifth press of such a run has been classified Triple, after Double.
C1_Witness ==
    /\ call.len = 5
    /\ \E c \in call.click : c.kind = "Triple"
    /\ \E p \in call.previous : p.kind = "Double"

\* C2: a call without previous click returns a Single click, whatever the
\* clock reads.
C2_FirstPressSingle ==
    (call.source # 0 /\ call.previous = None) =>
        /\ Returned(call)
        /\ \A c \in call.click : c.kind = "Single"

\* Calls without previous click at two different clock readings.
C2_Witness ==
    /\ prior.source # 0 /\ prior.previous = None
    /\ call.source # 0 /\ call.previous = None
    /\ prior.time > call.time
    /\ \E c \in call.click : c.kind = "Single"

\* C3: a press at a position different from the previous click's is
\* Single, whatever the previous kind and time.
C3_MovedPressSingle ==
    \A p \in call.previous :
        (call.source # 0 /\ p.position # call.position) =>
            /\ Returned(call)
            /\ \A c \in call.click : c.kind = "Single"

\* A moved press with no time elapsed since a Triple click.
C3_Witness ==
    /\ call.source # 0
    /\ \E p \in call.previous :
         /\ p.position # call.position
         /\ p.time = call.time
         /\ p.kind = "Triple"
    /\ \E c \in call.click : c.kind = "Single"

\* C4: at the position of the previous click, exactly 300 ms after it, the
\* kind is the next of the previous kind; exactly 301 ms after it, Single.
C4_Boundary ==
    \A p \in call.previous :
        (call.source # 0 /\ p.position = call.position) =>
            /\ call.time - p.time = Millis(300) =>
                 /\ Returned(call)
                 /\ \A c \in call.click :
                      c.kind = (IF p.kind = "Double" THEN "Triple" ELSE "Double")
            /\ call.time - p.time = Millis(301) =>
                 /\ Returned(call)
                 /\ \A c \in call.click : c.kind = "Single"

\* The same previous click, pressed again after 300 ms and after 301 ms.
C4_Witness ==
    /\ prior.source # 0 /\ call.source # 0
    /\ prior.previous = call.previous
    /\ prior.position = call.position
    /\ \E p \in call.previous :
         /\ p.position = call.position
         /\ prior.time - p.time = Millis(300)
         /\ call.time - p.time = Millis(301)
    /\ \E c \in prior.click : c.kind = "Triple"
    /\ \E c \in call.click : c.kind = "Single"

\* C5: at the position of the previous click, for every elapsed duration,
\* whole milliseconds or not, the press advances the kind if and only if
\* the elapsed duration is at most 300 ms, and is Single otherwise.
C5_WindowOnDurations ==
    \A p \in call.previous :
        (call.source # 0 /\ p.position = call.position /\ p.time <= call.time) =>
            /\ Returned(call)
            /\ \A c \in call.click :
                 IF call.time - p.time <= Millis(300)
                 THEN c.kind = (IF p.kind = "Double" THEN "Triple" ELSE "Double")
                 ELSE c.kind = "Single"

\* C6: every call returns a click of kind Single, Double or Triple, also
\* when the previous click is later than the clock reading.
C6_Total ==
    call.source # 0 =>
        /\ Returned(call)
        /\ \A c \in call.click : c.kind \in Kinds

\* C7: the window is measured from the previous click: a press of a run
\* advances the kind also when the first press of the run is more than
\* 300 ms old.
C7_WindowFromPrevious ==
    (call.len >= 2 /\ call.time - call.start > Millis(300)) =>
        /\ Returned(call)
        /\ \A c \in call.click, p \in call.previous :
             c.kind = (IF p.kind = "Double" THEN "Triple" ELSE "Double")

\* Presses at 0, 200 and 400 ms: the third is Triple, 400 ms after the first.
C7_Witness ==
    /\ call.len = 3
    /\ call.start = 0
    /\ call.time = Millis(400)
    /\ \E p \in call.previous : p.time = Millis(200) /\ p.kind = "Double"
    /\ \E c \in call.click : c.kind = "Triple"

\* Two successive calls were given the same position and previous click.
SameInputs ==
    /\ prior.source # 0 /\ call.source # 0
    /\ prior.position = call.position
    /\ prior.previous = call.previous

\* The clock reading t is in the window of the click p for a press at
\* position: less than 301 ms have elapsed at the position of p.
InWindow(p, position, t) ==
    p.position = position /\ t - p.time < Millis(301)

C9_PreviousUnchanged ==
    [][presses' # presses => last_click' = last_click]_vars

\* A consecutive press has been classified and the previous click given to
\* it is still the one the caller holds.
C9_Witness ==
    /\ call.source \in Sources
    /\ call.previous # None
    /\ last_click[call.source] = call.previous
    /\ \E c \in call.click : c.kind = "Triple"

\* The call continues the click the call before it returned.
Chained ==
    /\ prior.source # 0 /\ call.source = prior.source
    /\ prior.click # None
    /\ call.previous = prior.click
    /\ \A p \in call.previous : Continues(p, call.position, call.time)

\* The call before was a press that did not continue its previous click
\* (moved, or more than 300 ms later) and was classified Single.
PriorWasReset ==
    /\ prior.previous # None
    /\ \A q \in prior.previous : ~Continues(q, prior.position, prior.time)
    /\ \A c \in prior.click : c.kind = "Single"

\* C10: the kind depends on the press and the previous click only: the
\* press that continues a reset press is Double whatever came before the
\* reset, and two sources with different histories that hold the same
\* click get the same click for the same press.
C10_OnlyPreviousClick ==
    /\ (Chained /\ PriorWasReset) =>
         /\ Returned(call)
         /\ \A c \in call.click : c.kind = "Double"
    /\ (/\ prior.source # 0 /\ call.source # 0
        /\ prior.source # call.source
        /\ prior.previous = call.previous
        /\ prior.position = call.position
        /\ prior.time = call.time) =>
         prior.click = call.click

\* Single, Double, a moved press (Single), then a press that continues it:
\* Double, not Triple.
C10_Witness ==
    /\ Chained /\ PriorWasReset
    /\ \E q \in prior.previous : q.kind = "Double"
    /\ \E c \in call.click : c.kind = "Double"

\* Two sources whose runs differ hold the same click and were given the
\* same press.
C10_WitnessHistories ==
    /\ prior.source # 0 /\ call.source # 0
    /\ prior.source # call.source
    /\ prior.previous = call.previous /\ call.previous # None
    /\ prior.position = call.position
    /\ prior.time = call.time
    /\ prior.len # call.len
    /\ \E c \in call.click : c.kind = "Double"

\* C11: with interleaved calls of two sources, each source holds the click
\* it would hold had its presses been classified alone at the same clock
\* readings, and a step of one source leaves the slot of the other as it was.
C11_SourcesIndependent ==
    /\ [](/\ alone = last_click
          /\ (call.source \in Sources /\ Returned(call)) =>
               call.previous = last_click[call.source]
                 \/ call.click = last_click[call.source])
    /\ [][\A o \in Sources :
            o # call'.source => last_click'[o] = last_click[o]]_vars

\* Both sources hold a Double click, from calls that alternated.
C11_Witness ==
    /\ prior.source \in Sources /\ call.source \in Sources
    /\ prior.source # call.source
    /\ last_click[prior.source] = prior.click
    /\ last_click[call.source] = call.click
    /\ \E c \in prior.click : c.kind = "Double"
    /\ \E c \in call.click : c.kind = "Double"
    /\ \E p \in prior.previous, q \in call.previous : p.time <= q.time

\* C12: every click returned carries the position given to the call and the
\* clock reading of the call, whatever its kind.
C12_PositionAndTime ==
    Returned(call) =>
        \A c \in call.click :
            /\ c.position = call.position
            /\ c.time = call.time
            /\ c.time = now

\* An advanced click, then a reset click at another position and a later
\* clock reading, from the same previous click.
C12_Witness ==
    /\ Returned(prior) /\ Returned(call)
    /\ prior.previous = call.previous
    /\ \E p \in call.previous :
         /\ p.position = prior.position /\ p.position # call.position
         /\ p.time < prior.time /\ prior.time < call.time
    /\ \E c \in prior.click :
         c.kind = "Double" /\ c.position = prior.position /\ c.time = prior.time
    /\ \E c \in call.click :
         c.kind = "Single" /\ c.position = call.position /\ c.time = call.time

\* C15: under the monotonic clock, with every call given a click an earlier
\* call returned, click times never decrease in call order and no call
\* meets a previous click later than its clock reading.
C15_TimesMonotonic ==
    /\ call.source # 0 => Returned(call)
    /\ prior.time <= call.time
    /\ call.time <= now
    /\ \A p \in call.previous : p.time <= call.time
    /\ \A c \in call.click : \A p \in call.previous : p.time <= c.time
    /\ \A s \in Sources : \A c \in last_click[s] : c.time <= now

\* A chained press later than the click it was given, itself later than the
\* first press.
C15_Witness ==
    /\ Chained
    /\ \E q \in prior.previous, p \in call.previous, c \in call.click :
         q.time < p.time /\ p.time < c.time
    /\ last_click[call.source] = call.click

\* C13: there is no terminal state: in every state a further press of every
\* source at every position can be classified, and a press that is not
\* consecutive (another position, or more than 300 ms elapsed) is Single.
C13_NoTerminalState ==
    /\ presses < MaxPresses =>
         \A s \in Sources, p \in Positions :
             ENABLED (\E d \in Deltas : Call(s, p, d))
    /\ \A q \in call.previous :
         (/\ call.source # 0
          /\ (q.position # call.position
                \/ call.time - q.time > Millis(300))) =>
             /\ Returned(call)
             /\ \A c \in call.click : c.kind = "Single"

\* C14: when a call is given the click the call before it returned, Triple
\* is returned only after a Double and Double only after a Single or a
\* Triple, in both cases at the same position and at most 300 ms later;
\* a first press is Single.
C14_AdvanceOnlyInWindow ==
    (call.source # 0 /\ call.previous = prior.click) =>
        /\ Returned(call)
        /\ \A c \in call.click :
             /\ c.kind = "Triple" =>
                  \E p \in call.previous :
                      /\ p.kind = "Double"
                      /\ Continues(p, call.position, call.time)
             /\ c.kind = "Double" =>
                  \E p \in call.previous :
                      /\ p.kind \in {"Single", "Triple"}
                      /\ Continues(p, call.position, call.time)

\* The event is a release of the left button.
IsLeftRelease(ev) ==
    ev.type = "Input" /\ ev.button = "Left" /\ ev.state = "Released"

\* The position of the most recent CursorMoved event, the origin if none.
MovedOrOrigin == IF moved = {} THEN Origin ELSE CHOOSE p \in moved : TRUE

\* C16: the star list starts with 100 stars and never shrinks: a release
\* of the left button appends one star of size 2.0 at the position of the
\* most recent CursorMoved event (the origin if none), and every other
\* event, tick or draw leaves the list as it is.
C16_StarsOnlyGrow ==
    /\ [](/\ Len(stars) >= StarCount
          /\ \A i \in 1..Len(stars) :
               IF i <= StarCount
               THEN stars[i][2] >= MinStarSize /\ stars[i][2] < MaxStarSize
               ELSE stars[i][2] = NewStarSize)
    /\ [][/\ Len(stars') >= Len(stars)
          /\ SubSeq(stars', 1, Len(stars)) = stars
          /\ IF IsLeftRelease(event')
             THEN stars' = Append(stars, <<MovedOrOrigin, NewStarSize>>)
             ELSE stars' = stars]_vars

\* A star added at the origin before any CursorMoved event, one added at
\* the position moved to, then a tick.
C16_Witness ==
    /\ Len(stars) = StarCount + 2
    /\ stars[StarCount + 1] = <<Origin, NewStarSize>>
    /\ stars[StarCount + 2] = << <<20, 10>>, NewStarSize >>
    /\ event.type = "Tick"
    /\ state_now > start

\* C17: a cache is cleared in the step that changes its data: the step that
\* changes the star list clears space_cache and not system_cache, a Tick
\* clears system_cache and not space_cache, and no cache holds geometry of
\* an older star list or an older now.
C17_CachesFresh ==
    /\ [](/\ \A g \in space_cache : g = stars
          /\ \A g \in system_cache : g = [start |-> start, now |-> state_now])
    /\ [][/\ stars' # stars => space_cache' = CacheEmpty
          /\ state_now' # state_now => system_cache' = CacheEmpty
          /\ event'.type = "Tick" =>
               (system_cache' = CacheEmpty /\ space_cache' = space_cache)
          /\ IsLeftRelease(event') =>
               (space_cache' = CacheEmpty /\ system_cache' = system_cache)]_vars

\* After a star was added and both caches were drawn, a tick at a later
\* instant emptied the system cache and left the space cache filled.
C17_Witness ==
    /\ Len(stars) > StarCount
    /\ state_now > start
    /\ event.type = "Tick"
    /\ space_cache # CacheEmpty
    /\ system_cache = CacheEmpty

====
